---- MODULE Spec2Model ----
(***************************************************************************)
(* SimQuant: dual-SMA crossover backtest (sma_backtest.py) and the         *)
(* Streamlit dashboard that drives it (app.py).                            *)
(*                                                                         *)
(* Numbers: a float is a record [nan, n, d]: either NaN or the exact       *)
(* fraction n/d in lowest terms with d > 0.  Rounding error of IEEE        *)
(* doubles is not modelled.  Irrational results (a fractional power, a     *)
(* square root) are kept symbolically.  Sequences are 1-based: row i of    *)
(* the data frame (0-based) is element i+1 here.                           *)
(***************************************************************************)
EXTENDS Integers, Sequences, FiniteSets, TLC

\* ------------------------------------------------------------------ bounds
MaxLen == 4          \* longest price series
MaxPrice == 3        \* closes are drawn from 1..MaxPrice
MaxWindow == 3       \* largest window passed to the engine directly
MaxRetLen == 3       \* longest free prefix of a return series analysed directly
MaxSigLen == 5       \* longest signal column plotted directly

\* --------------------------------------------------------- program constants
TradingDays == 252
ShortMin == 5
ShortMax == 100
ShortDefault == 20
LongMin == 10
LongMax == 200
LongDefault == 50

\* ------------------------------------------------------------- float values
Abs(x) == IF x < 0 THEN 0 - x ELSE x

RECURSIVE GCD(_, _)
GCD(a, b) == IF b = 0 THEN a ELSE GCD(b, a % b)

NaN == [nan |-> TRUE, n |-> 0, d |-> 1]

\* n/d (d # 0) in lowest terms with a positive denominator
F(n, d) ==
    LET s == IF d < 0 THEN 0 - 1 ELSE 1
        g == GCD(Abs(n), Abs(d))
    IN  [nan |-> FALSE, n |-> (s * n) \div g, d |-> Abs(d) \div g]

Zero == F(0, 1)
One == F(1, 1)

FAdd(a, b) ==
    IF a.nan \/ b.nan THEN NaN
    ELSE LET g == GCD(a.d, b.d)
         IN  F(a.n * (b.d \div g) + b.n * (a.d \div g), a.d * (b.d \div g))

FNeg(a) == IF a.nan THEN NaN ELSE F(0 - a.n, a.d)

FSub(a, b) == FAdd(a, FNeg(b))

FMul(a, b) ==
    IF a.nan \/ b.nan THEN NaN
    ELSE LET g1 == GCD(Abs(a.n), b.d)
             g2 == GCD(Abs(b.n), a.d)
         IN  F((a.n \div g1) * (b.n \div g2), (a.d \div g2) * (b.d \div g1))

\* The divisor is never zero on the paths modelled (closes are positive, so
\* every return is > -1 and every wealth value is > 0); x/0 is given as NaN.
FDiv(a, b) ==
    IF a.nan \/ b.nan THEN NaN
    ELSE IF b.n = 0 THEN NaN
    ELSE FMul(a, F(b.d, b.n))

\* comparisons with NaN are False, as for IEEE doubles
FGt(a, b) == ~a.nan /\ ~b.nan /\ a.n * b.d > b.n * a.d
FLt(a, b) == FGt(b, a)
FEq(a, b) == ~a.nan /\ ~b.nan /\ a = b

FMax(a, b) == IF FGt(b, a) THEN b ELSE a
FMin(a, b) == IF FLt(b, a) THEN b ELSE a

\* ------------------------------------------------------------ input domains
Prices == 1..MaxPrice

RECURSIVE SeqsUpTo(_, _)
SeqsUpTo(S, n) ==
    IF n = 0 THEN {<<>>}
    ELSE LET prev == SeqsUpTo(S, n - 1)
         IN  prev \cup {Append(s, x) : s \in {t \in prev : Len(t) = n - 1}, x \in S}

\* what the data provider can return: an empty frame or closes of 1..MaxLen days
PriceSeries == SeqsUpTo(Prices, MaxLen)

\* window arguments a caller of the engine can pass
WindowArgs == (0 - 1)..MaxWindow

\* slider positions tried on the dashboard (the sliders span ShortMin..ShortMax
\* and LongMin..LongMax)
ShortSlider == {v \in {ShortMin, LongMin, ShortDefault, LongDefault, ShortMax} :
                    ShortMin <= v /\ v <= ShortMax}
LongSlider == {v \in {LongMin, ShortDefault, LongDefault, ShortMax, LongMax} :
                    LongMin <= v /\ v <= LongMax}

\* daily returns a positive price series can show (each is > -1), and NaN
ReturnValues == {F(0 - 1, 5), Zero, F(1, 10), NaN}

\* Return series analysed directly: every short series over ReturnValues, and
\* year-long ones, a short free prefix followed by a run of zero returns that
\* brings the count of defined values to either side of TradingDays.
ZeroRun(k) == [i \in 1..k |-> Zero]

ShortReturnSeries == SeqsUpTo(ReturnValues, MaxRetLen)

LongReturnSeries ==
    {p \o ZeroRun(k) : p \in SeqsUpTo(ReturnValues, MaxRetLen - 1),
                       k \in (TradingDays - MaxRetLen + 1)..TradingDays}

ReturnSeries == ShortReturnSeries \cup LongReturnSeries

SignalSeries == SeqsUpTo({0, 1}, MaxSigLen) \ {<<>>}

\* --------------------------------------------------------- pandas primitives
RECURSIVE SumInts(_, _, _)
SumInts(s, lo, hi) == IF lo > hi THEN 0 ELSE s[hi] + SumInts(s, lo, hi - 1)

\* Series.rolling(window).mean(): min_periods defaults to the window, so the
\* first window-1 rows are NaN; a window of 0 has no observation in any row
RollingMean(close, window) ==
    [i \in 1..Len(close) |->
        IF window >= 1 /\ i >= window
        THEN FDiv(F(SumInts(close, i - window + 1, i), 1), F(window, 1))
        ELSE NaN]

\* rolling() refuses a negative window with a ValueError
RollingRaises(window) == window < 0

\* variant: shift(1, fill_value=0)
Shift1_fill0(s) == [i \in 1..Len(s) |-> IF i = 1 THEN Zero ELSE F(s[i - 1], 1)]

\* Series.shift(1) of an integer column: the column becomes float and row 0 NaN
Shift1(s) == [i \in 1..Len(s) |-> IF i = 1 THEN NaN ELSE F(s[i - 1], 1)]

\* variant: the first row filled with 0
PctChange_zero_first(close) ==
    [i \in 1..Len(close) |->
        IF i = 1 THEN Zero
        ELSE FSub(FDiv(F(close[i], 1), F(close[i - 1], 1)), One)]

\* Series.pct_change()
PctChange(close) ==
    [i \in 1..Len(close) |->
        IF i = 1 THEN NaN
        ELSE FSub(FDiv(F(close[i], 1), F(close[i - 1], 1)), One)]

\* variant: method='bfill', the nearest later row that is not v
RECURSIVE ReplaceBfill(_, _)
ReplaceBfill(s, v) ==
    IF Len(s) = 0 THEN s
    ELSE LET back == ReplaceBfill(Tail(s), v)
             x == Head(s)
         IN  <<IF x = v /\ Len(back) > 0 THEN back[1] ELSE x>> \o back

\* Series.replace(to_replace=v, method='ffill'): every row equal to v takes the
\* value of the nearest earlier row that is not v; rows with no such earlier
\* row keep their value
RECURSIVE ReplaceFfill(_, _)
ReplaceFfill(s, v) ==
    IF Len(s) = 0 THEN s
    ELSE LET front == ReplaceFfill(SubSeq(s, 1, Len(s) - 1), v)
             x == s[Len(s)]
         IN  Append(front, IF x = v /\ Len(front) > 0 THEN front[Len(front)] ELSE x)

\* Series.fillna(0) on the integer Position column: nothing is missing
FillNa0(s) == s

\* Series.dropna()
Dropna(s) == SelectSeq(s, LAMBDA x : ~x.nan)

\* 1 + series
OnePlus(s) == [i \in 1..Len(s) |-> FAdd(One, s[i])]

\* The running operations below split the series in two halves, so that a
\* series of a year's length is folded at logarithmic depth.
Left(s) == SubSeq(s, 1, Len(s) \div 2)
Right(s) == SubSeq(s, Len(s) \div 2 + 1, Len(s))

\* last defined value of a series, or dflt when it has none
LastDefined(s, dflt) ==
    LET seen == SelectSeq(s, LAMBDA y : ~y.nan)
    IN  IF Len(seen) = 0 THEN dflt ELSE seen[Len(seen)]

\* Series.cumprod(): NaN rows stay NaN and are skipped by the running product
RECURSIVE CumProd(_)
CumProd(s) ==
    IF Len(s) <= 1 THEN s
    ELSE LET a == CumProd(Left(s))
             b == CumProd(Right(s))
             acc == LastDefined(a, One)
         IN  a \o [i \in 1..Len(b) |-> FMul(acc, b[i])]

\* Series.cummax() of a series without NaN
RECURSIVE CumMax(_)
CumMax(s) ==
    IF Len(s) <= 1 THEN s
    ELSE LET a == CumMax(Left(s))
             b == CumMax(Right(s))
             top == a[Len(a)]
         IN  a \o [i \in 1..Len(b) |-> FMax(top, b[i])]

\* Series.prod() of a series without NaN
RECURSIVE Prod(_)
Prod(s) ==
    IF Len(s) = 0 THEN One
    ELSE IF Len(s) = 1 THEN s[1]
    ELSE FMul(Prod(Left(s)), Prod(Right(s)))

\* Series.sum() of a series without NaN
RECURSIVE SumF(_)
SumF(s) ==
    IF Len(s) = 0 THEN Zero
    ELSE IF Len(s) = 1 THEN s[1]
    ELSE FAdd(SumF(Left(s)), SumF(Right(s)))

\* Series.min() of a non-empty series without NaN
RECURSIVE MinF(_)
MinF(s) == IF Len(s) = 1 THEN s[1] ELSE FMin(MinF(Left(s)), MinF(Right(s)))

\* Series.std() squared: the sample variance (ddof = 1) about the mean
Variance(s) ==
    LET mean == FDiv(SumF(s), F(Len(s), 1))
        dev2 == [i \in 1..Len(s) |-> FMul(FSub(s[i], mean), FSub(s[i], mean))]
    IN  FDiv(SumF(dev2), F(Len(s) - 1, 1))

\* ------------------------------------------------- symbolic real results
\* x^(en/ed) + plus, exact when en = ed
Exact(v) == [x |-> v, en |-> 1, ed |-> 1, plus |-> Zero]

\* base ** (en/ed); 1 to any power is exactly 1
Power(base, en, ed) ==
    IF base = One \/ en = ed THEN Exact(base)
    ELSE [x |-> base, en |-> en, ed |-> ed, plus |-> Zero]

MinusOne(r) ==
    IF r.en = r.ed THEN Exact(FSub(FAdd(r.x, r.plus), One))
    ELSE [r EXCEPT !.plus = FSub(@, One)]

\* the non-negative square root of v
Sqrt(v) == [sq |-> v]

\* num / den
Quotient(num, den) == [num |-> num, den |-> den]

\* the integer 0 as a quotient
IntZero == Quotient(Exact(Zero), Sqrt(One))

\* ------------------------------------------------- get_performance_report
NoReport == [kind |-> "none"]

\* variant: three observations required
InsufficientData_lt3(dr) == Len(dr) < 3

InsufficientData(dr) == Len(dr) < 2

CumulativeReturn(dr) == FSub(Prod(OnePlus(dr)), One)

\* variant: every series is scaled to a year, short ones too
AnnualizedReturn_always(dr, cumulative_return) ==
    MinusOne(Power(FAdd(One, cumulative_return), TradingDays, Len(dr)))

AnnualizedReturn(dr, cumulative_return) ==
    IF Len(dr) > TradingDays
    THEN MinusOne(Power(FAdd(One, cumulative_return), TradingDays, Len(dr)))
    ELSE Exact(cumulative_return)

\* daily_returns.std() * np.sqrt(252)
AnnualizedVolatility(dr) == Sqrt(FMul(Variance(dr), F(TradingDays, 1)))

\* variant: no zero-volatility guard
SharpeRatio_unguarded(annualized_return, annualized_volatility) ==
    Quotient(annualized_return, annualized_volatility)

SharpeRatio(annualized_return, annualized_volatility) ==
    IF annualized_volatility.sq # Zero
    THEN Quotient(annualized_return, annualized_volatility)
    ELSE IntZero

\* variant: decline measured from the highest wealth of the whole period
MaxDrawdown_global_peak(dr) ==
    LET cumulative == CumProd(OnePlus(dr))
        top == CumMax(cumulative)[Len(dr)]
        drawdown == [i \in 1..Len(dr) |-> FDiv(FSub(cumulative[i], top), top)]
    IN  MinF(drawdown)

MaxDrawdown(dr) ==
    LET cumulative == CumProd(OnePlus(dr))
        peak == CumMax(cumulative)
        drawdown == [i \in 1..Len(dr) |->
                        FDiv(FSub(cumulative[i], peak[i]), peak[i])]
    IN  MinF(drawdown)

\* The report is kept as the values it prints; the text layout (".2%", ".2f")
\* is not modelled.
get_performance_report(daily_returns_arg, name) ==
    LET dr == Dropna(daily_returns_arg) IN
    IF InsufficientData(dr)
    THEN [kind |-> "placeholder", name |-> name]
    ELSE LET cumulative_return == CumulativeReturn(dr)
             annualized_return == AnnualizedReturn(dr, cumulative_return)
             annualized_volatility == AnnualizedVolatility(dr)
         IN  [kind |-> "numeric",
              name |-> name,
              cumulative_return |-> cumulative_return,
              annualized_return |-> annualized_return,
              annualized_volatility |-> annualized_volatility,
              sharpe_ratio |-> SharpeRatio(annualized_return, annualized_volatility),
              max_drawdown |-> MaxDrawdown(dr)]

\* ------------------------------------------------------ engine functions
\* variant: >= in place of >
SignalColumn_ge(sma_s, sma_l) ==
    [i \in 1..Len(sma_s) |->
        IF FGt(sma_s[i], sma_l[i]) \/ FEq(sma_s[i], sma_l[i]) THEN 1 ELSE 0]

\* Signal column of calculate_signals: 0, then 1 where the short SMA is above
\* the long SMA
SignalColumn(sma_s, sma_l) ==
    [i \in 1..Len(sma_s) |-> IF FGt(sma_s[i], sma_l[i]) THEN 1 ELSE 0]

\* Position column of calculate_signals
PositionColumn(signal) == FillNa0(ReplaceFfill(signal, 0))

\* Strategy Return column of calculate_returns
StrategyReturn(daily, position) ==
    [i \in 1..Len(daily) |-> FMul(daily[i], F(position[i], 1))]

\* marker masks of plot_signals
BuySignals(signal) ==
    LET prev == Shift1(signal)
    IN  [i \in 1..Len(signal) |-> signal[i] = 1 /\ FEq(prev[i], Zero)]

SellSignals(signal) ==
    LET prev == Shift1(signal)
    IN  [i \in 1..Len(signal) |-> signal[i] = 0 /\ FEq(prev[i], One)]

\* the window check of the dashboard script
SlidersRejected(sw, lw) == sw >= lw

\* ------------------------------------------------------------------- state
VARIABLES
    entry,            \* who called: "app", "run_backtest", or a function called directly
    pc,               \* position in the flow
    short_window, long_window,
    columns,          \* names of the derived columns the frame holds
    Close, SMA_short, SMA_long, Signal, Position,
    Daily_Return, Strategy_Return, BuyHold, Strategy,
    buy_signals, sell_signals,
    report_buy_hold, report_strategy,
    daily_returns,    \* argument of a direct get_performance_report call
    report            \* its result

frame == <<columns, Close, SMA_short, SMA_long, Signal, Position,
           Daily_Return, Strategy_Return, BuyHold, Strategy>>
markers == <<buy_signals, sell_signals>>
reports == <<report_buy_hold, report_strategy>>
direct == <<daily_returns, report>>
vars == <<entry, pc, short_window, long_window, frame, markers, reports, direct>>

Pipeline == {"app", "run_backtest"}

Init ==
    /\ entry = "none"
    /\ pc = "idle"
    /\ short_window = ShortDefault
    /\ long_window = LongDefault
    /\ columns = {}
    /\ Close = <<>>
    /\ SMA_short = <<>>
    /\ SMA_long = <<>>
    /\ Signal = <<>>
    /\ Position = <<>>
    /\ Daily_Return = <<>>
    /\ Strategy_Return = <<>>
    /\ BuyHold = <<>>
    /\ Strategy = <<>>
    /\ buy_signals = <<>>
    /\ sell_signals = <<>>
    /\ report_buy_hold = NoReport
    /\ report_strategy = NoReport
    /\ daily_returns = <<>>
    /\ report = NoReport

\* get_data: an empty download is None
Loaded(data) == IF Len(data) = 0 THEN "nodata" ELSE "data"

\* One run of the dashboard script up to the engine calls: the sliders are read,
\* the window check stops the script, the button decides whether data is loaded.
AppScript(sw, lw, pressed, data) ==
    /\ pc = "idle"
    /\ entry' = "app"
    /\ short_window' = sw
    /\ long_window' = lw
    /\ IF SlidersRejected(sw, lw)
       THEN pc' = "stopped" /\ Close' = Close
       ELSE IF ~pressed
       THEN pc' = "info" /\ Close' = Close
       ELSE pc' = Loaded(data) /\ Close' = data
    /\ UNCHANGED <<columns, SMA_short, SMA_long, Signal, Position, Daily_Return,
                   Strategy_Return, BuyHold, Strategy, markers, reports, direct>>

\* run_backtest up to its call of calculate_signals
RunBacktest(sw, lw, data) ==
    /\ pc = "idle"
    /\ entry' = "run_backtest"
    /\ short_window' = sw
    /\ long_window' = lw
    /\ pc' = Loaded(data)
    /\ Close' = data
    /\ UNCHANGED <<columns, SMA_short, SMA_long, Signal, Position, Daily_Return,
                   Strategy_Return, BuyHold, Strategy, markers, reports, direct>>

\* a caller hands a price frame to calculate_signals directly
CallCalculateSignals(sw, lw, data) ==
    /\ pc = "idle"
    /\ Len(data) >= 1
    /\ entry' = "calculate_signals"
    /\ short_window' = sw
    /\ long_window' = lw
    /\ pc' = "data"
    /\ Close' = data
    /\ UNCHANGED <<columns, SMA_short, SMA_long, Signal, Position, Daily_Return,
                   Strategy_Return, BuyHold, Strategy, markers, reports, direct>>

\* calculate_signals.  With short_window = long_window both SMA assignments
\* write the same column; the two variables then hold the same values.
CalculateSignals ==
    /\ pc = "data"
    /\ IF RollingRaises(short_window)
       THEN /\ pc' = "error"
            /\ UNCHANGED <<columns, SMA_short, SMA_long, Signal, Position>>
       ELSE IF RollingRaises(long_window)
       THEN /\ pc' = "error"
            /\ SMA_short' = RollingMean(Close, short_window)
            /\ columns' = columns \cup {"SMA_short"}
            /\ UNCHANGED <<SMA_long, Signal, Position>>
       ELSE /\ pc' = IF entry \in Pipeline THEN "signals" ELSE "done"
            /\ SMA_short' = RollingMean(Close, short_window)
            /\ SMA_long' = RollingMean(Close, long_window)
            /\ Signal' = SignalColumn(SMA_short', SMA_long')
            /\ Position' = PositionColumn(Signal')
            /\ columns' = columns \cup {"SMA_short", "SMA_long", "Signal", "Position"}
    /\ UNCHANGED <<entry, short_window, long_window, Close, Daily_Return,
                   Strategy_Return, BuyHold, Strategy, markers, reports, direct>>

\* calculate_returns
CalculateReturns ==
    /\ pc = "signals"
    /\ pc' = "returns"
    /\ Daily_Return' = PctChange(Close)
    /\ Strategy_Return' = StrategyReturn(Daily_Return', Position)
    /\ columns' = columns \cup {"Daily Return", "Strategy Return"}
    /\ UNCHANGED <<entry, short_window, long_window, Close, SMA_short, SMA_long,
                   Signal, Position, BuyHold, Strategy, markers, reports, direct>>

\* calculate_returns called directly on a frame with Close and Position columns
CallCalculateReturns(data, pos) ==
    /\ pc = "idle"
    /\ Len(pos) = Len(data)
    /\ entry' = "calculate_returns"
    /\ pc' = "done"
    /\ Close' = data
    /\ Position' = pos
    /\ Daily_Return' = PctChange(data)
    /\ Strategy_Return' = StrategyReturn(Daily_Return', pos)
    /\ columns' = columns \cup {"Daily Return", "Strategy Return"}
    /\ UNCHANGED <<short_window, long_window, SMA_short, SMA_long, Signal,
                   BuyHold, Strategy, markers, reports, direct>>

\* plot_signals inside the flow
PlotSignals ==
    /\ pc = "returns"
    /\ pc' = "plotted"
    /\ buy_signals' = BuySignals(Signal)
    /\ sell_signals' = SellSignals(Signal)
    /\ UNCHANGED <<entry, short_window, long_window, frame, reports, direct>>

\* plot_signals called directly on a frame with a Signal column
CallPlotSignals(sig) ==
    /\ pc = "idle"
    /\ entry' = "plot_signals"
    /\ pc' = "done"
    /\ Signal' = sig
    /\ buy_signals' = BuySignals(sig)
    /\ sell_signals' = SellSignals(sig)
    /\ UNCHANGED <<short_window, long_window, columns, Close, SMA_short, SMA_long,
                   Position, Daily_Return, Strategy_Return, BuyHold, Strategy,
                   reports, direct>>

\* plot_performance
PlotPerformance ==
    /\ pc = "plotted"
    /\ pc' = "performance"
    /\ BuyHold' = CumProd(OnePlus(Daily_Return))
    /\ Strategy' = CumProd(OnePlus(Strategy_Return))
    /\ columns' = columns \cup {"BuyHold", "Strategy"}
    /\ UNCHANGED <<entry, short_window, long_window, Close, SMA_short, SMA_long,
                   Signal, Position, Daily_Return, Strategy_Return, markers,
                   reports, direct>>

\* the first report of the flow
ReportBuyHold ==
    /\ pc = "performance"
    /\ pc' = "report1"
    /\ report_buy_hold' = get_performance_report(Daily_Return, "Buy & Hold")
    /\ UNCHANGED <<entry, short_window, long_window, frame, markers,
                   report_strategy, direct>>

\* label of the second report: the dashboard names the windows
StrategyName ==
    IF entry = "app"
    THEN "SMA (" \o ToString(short_window) \o "/" \o ToString(long_window) \o ") Strategy"
    ELSE "SMA Strategy"

\* the second report of the flow
ReportStrategy ==
    /\ pc = "report1"
    /\ pc' = "done"
    /\ report_strategy' = get_performance_report(Strategy_Return, StrategyName)
    /\ UNCHANGED <<entry, short_window, long_window, frame, markers,
                   report_buy_hold, direct>>

\* get_performance_report called directly on a return series
CallPerformanceReport(rets) ==
    /\ pc = "idle"
    /\ entry' = "get_performance_report"
    /\ pc' = "done"
    /\ daily_returns' = rets
    /\ report' = get_performance_report(rets, "Strategy")
    /\ UNCHANGED <<short_window, long_window, frame, markers, reports>>

\* the calls a user or a caller can start: inputs are drawn here
StartApp ==
    /\ pc = "idle"
    /\ \E sw \in ShortSlider, lw \in LongSlider, pressed \in BOOLEAN, data \in PriceSeries :
            AppScript(sw, lw, pressed, data)

StartRunBacktest ==
    /\ pc = "idle"
    /\ \E sw \in WindowArgs, lw \in WindowArgs, data \in PriceSeries :
            RunBacktest(sw, lw, data)

StartCalculateSignals ==
    /\ pc = "idle"
    /\ \E sw \in WindowArgs, lw \in WindowArgs, data \in PriceSeries :
            CallCalculateSignals(sw, lw, data)

StartCalculateReturns ==
    /\ pc = "idle"
    /\ \E data \in PriceSeries \ {<<>>} :
            \E pos \in [1..Len(data) -> {0, 1}] : CallCalculateReturns(data, pos)

StartPlotSignals ==
    /\ pc = "idle"
    /\ \E sig \in SignalSeries : CallPlotSignals(sig)

StartPerformanceReport ==
    /\ pc = "idle"
    /\ \E rets \in ReturnSeries : CallPerformanceReport(rets)

Next ==
    \/ StartApp
    \/ StartRunBacktest
    \/ StartCalculateSignals
    \/ StartCalculateReturns
    \/ StartPlotSignals
    \/ StartPerformanceReport
    \/ CalculateSignals
    \/ CalculateReturns
    \/ PlotSignals
    \/ PlotPerformance
    \/ ReportBuyHold
    \/ ReportStrategy

Spec == Init /\ [][Next]_vars

\* ================================================================== claims
ValidWindows == 0 < short_window /\ short_window < long_window

\* calculate_signals has returned
SignalsDone ==
    /\ entry \in {"app", "run_backtest", "calculate_signals"}
    /\ "Position" \in columns

\* calculate_returns has returned
ReturnsDone ==
    /\ entry \in {"app", "run_backtest", "calculate_returns"}
    /\ "Strategy Return" \in columns

\* plot_signals has derived its markers
MarkersDone ==
    \/ entry = "plot_signals" /\ pc = "done"
    \/ entry \in Pipeline /\ pc \in {"plotted", "performance", "report1", "done"}

\* sum of the w closes ending at row i
RECURSIVE TrailingSum(_, _)
TrailingSum(i, w) == IF w = 0 THEN 0 ELSE Close[i] + TrailingSum(i - 1, w - 1)

\* mean of the last short_window closes > mean of the last long_window closes
ShortAboveLong(i) ==
    TrailingSum(i, short_window) * long_window > TrailingSum(i, long_window) * short_window

MeansEqual(i) ==
    TrailingSum(i, short_window) * long_window = TrailingSum(i, long_window) * short_window

\* number of defined entries of a return series
Defined(s) == Cardinality({i \in DOMAIN s : ~s[i].nan})

IsZeroQuotient(q) == q.den.sq # Zero /\ q.num = Exact(Zero)

\* C1: with 0 < short_window < long_window, after calculate_signals the
\* position equals the signal at every row where both SMAs are defined and is
\* Flat before; a Flat signal after a Long one gives a Flat position.
C1_PositionFollowsSignal ==
    (SignalsDone /\ ValidWindows) =>
        /\ Len(Position) = Len(Close)
        /\ \A i \in 1..Len(Close) :
              Position[i] = IF i >= long_window THEN Signal[i] ELSE 0

\* C2: with 0 < short_window < long_window, signal[i] is Long exactly when
\* both trailing means exist at i and the short mean is strictly above the
\* long mean; equal means and warm-up rows are Flat whatever the row before.
C2_SignalIffShortAboveLong ==
    (SignalsDone /\ ValidWindows) =>
        /\ Len(Signal) = Len(Close)
        /\ \A i \in 1..Len(Close) :
              Signal[i] = IF i >= long_window /\ ShortAboveLong(i) THEN 1 ELSE 0

\* a Long row followed by a row on which the two means are equal
C2_Witness ==
    /\ SignalsDone
    /\ ValidWindows
    /\ \E i \in 2..Len(Close) :
          i >= long_window /\ Signal[i - 1] = 1 /\ MeansEqual(i) /\ Signal[i] = 0

\* C3: a configuration with short_window >= long_window or a non-positive
\* window never gets an SMA, Signal or Position column, on any entry path.
C3_InvalidWindowsRejected ==
    (entry \in {"app", "run_backtest", "calculate_signals"} /\ ~ValidWindows) =>
        columns \cap {"SMA_short", "SMA_long", "Signal", "Position"} = {}

\* a report is the placeholder iff fewer than 2 of its returns are defined,
\* and otherwise carries the five statistics
ReportShape(s, r) ==
    r.kind # "none" =>
        IF Defined(s) < 2
        THEN r.kind = "placeholder" /\ DOMAIN r = {"kind", "name"}
        ELSE /\ r.kind = "numeric"
             /\ DOMAIN r = {"kind", "name", "cumulative_return", "annualized_return",
                            "annualized_volatility", "sharpe_ratio", "max_drawdown"}
             /\ ~r.cumulative_return.nan
             /\ ~r.annualized_return.x.nan
             /\ ~r.annualized_volatility.sq.nan
             /\ ~r.sharpe_ratio.num.x.nan
             /\ ~r.max_drawdown.nan

\* C4: get_performance_report gives the placeholder iff fewer than 2 returns
\* are defined and the five statistics otherwise; the flow goes on to the
\* second report; 1 or 2 prices give the placeholder for both reports.
C4_PlaceholderIffFewerThanTwo ==
    /\ ReportShape(Daily_Return, report_buy_hold)
    /\ ReportShape(Strategy_Return, report_strategy)
    /\ ReportShape(daily_returns, report)
    /\ (entry \in Pipeline /\ pc = "report1") => report_buy_hold.kind # "none"
    /\ (entry \in Pipeline /\ pc = "done") =>
            /\ report_buy_hold.kind # "none"
            /\ report_strategy.kind # "none"
            /\ Len(Close) <= 2 =>
                  report_buy_hold.kind = "placeholder" /\ report_strategy.kind = "placeholder"

\* the flow has ended on a two-point series, both reports placeholders
C4_Witness ==
    /\ entry \in Pipeline
    /\ pc = "done"
    /\ Len(Close) = 2
    /\ report_buy_hold.kind = "placeholder"
    /\ report_strategy.kind = "placeholder"

AnnualizedByCount(s, r) ==
    r.kind = "numeric" =>
        LET N == Defined(s) IN
        /\ N <= 252 => r.annualized_return = Exact(r.cumulative_return)
        /\ N > 252 => r.annualized_return =
                         MinusOne(Power(FAdd(One, r.cumulative_return), 252, N))

\* C5: the annualization branch depends on the count N of defined returns
\* only: cumulative_return unchanged for 2 <= N <= 252, the geometric formula
\* (1 + cumulative_return)^(252/N) - 1 for N > 252.
C5_AnnualizationByCount ==
    /\ AnnualizedByCount(Daily_Return, report_buy_hold)
    /\ AnnualizedByCount(Strategy_Return, report_strategy)
    /\ AnnualizedByCount(daily_returns, report)

\* 253 defined returns with a non-zero cumulative return: the power is taken
C5_Witness ==
    /\ report.kind = "numeric"
    /\ Defined(daily_returns) = 253
    /\ report.cumulative_return # Zero
    /\ report.annualized_return.en = 252
    /\ report.annualized_return.ed = 253

\* W is the wealth curve of the returns dr
IsWealthCurve(W, dr) ==
    /\ Len(W) = Len(dr)
    /\ \A i \in 1..Len(dr) :
          W[i] = FMul(IF i = 1 THEN One ELSE W[i - 1], FAdd(One, dr[i]))

\* P is the running maximum of W
IsRunningPeak(P, W) ==
    /\ Len(P) = Len(W)
    /\ \A i \in 1..Len(W) : \A j \in {i - 1} \cap (1..Len(W)) :
          /\ ~FLt(P[i], W[i])
          /\ ~FLt(P[i], P[j])
          /\ P[i] = W[i] \/ P[i] = P[j]
    /\ Len(W) >= 1 => P[1] = W[1]

NonDecreasing(W) == \A i \in 2..Len(W) : ~FLt(W[i], W[i - 1])

DrawdownIsWorstDecline(s, r) ==
    r.kind = "numeric" =>
        LET dr == Dropna(s)
            W == CumProd(OnePlus(dr))
            P == CumMax(W)
            dd(i) == FDiv(FSub(W[i], P[i]), P[i])
        IN  /\ IsWealthCurve(W, dr)
            /\ IsRunningPeak(P, W)
            /\ \E i \in 1..Len(dr) : r.max_drawdown = dd(i)
            /\ \A i \in 1..Len(dr) : ~FLt(dd(i), r.max_drawdown)
            /\ ~FGt(r.max_drawdown, Zero)
            /\ NonDecreasing(W) => r.max_drawdown = Zero
            /\ dr = <<F(1, 10), F(0 - 1, 5), F(1, 10)>> => r.max_drawdown = F(0 - 1, 5)

\* C6: max_drawdown is the minimum over i of (W_i - P_i)/P_i with W the
\* wealth curve and P its running peak; it is <= 0, it is 0 when the wealth
\* curve never falls, and it is -0.20 for the returns [0.10, -0.20, 0.10].
C6_MaxDrawdown ==
    /\ DrawdownIsWorstDecline(Daily_Return, report_buy_hold)
    /\ DrawdownIsWorstDecline(Strategy_Return, report_strategy)
    /\ DrawdownIsWorstDecline(daily_returns, report)

\* the returns [0.10, -0.20, 0.10] have been analysed
C6_Witness ==
    /\ report.kind = "numeric"
    /\ daily_returns = <<F(1, 10), F(0 - 1, 5), F(1, 10)>>
    /\ report.max_drawdown = F(0 - 1, 5)

ZeroVolatilityZeroSharpe(s, r) ==
    r.kind = "numeric" =>
        /\ r.annualized_volatility = Sqrt(Zero) => IsZeroQuotient(r.sharpe_ratio)
        /\ (\A i \in DOMAIN s : s[i].nan \/ s[i] = Zero) =>
              /\ r.cumulative_return = Zero
              /\ r.annualized_return = Exact(Zero)
              /\ r.max_drawdown = Zero
              /\ IsZeroQuotient(r.sharpe_ratio)

\* C7: zero annualized volatility gives sharpe_ratio = 0 without a division,
\* whatever the annualized return; N >= 2 zero returns give cumulative_return,
\* annualized_return, max_drawdown and sharpe_ratio all 0.
C7_ZeroVolatility ==
    /\ ZeroVolatilityZeroSharpe(Daily_Return, report_buy_hold)
    /\ ZeroVolatilityZeroSharpe(Strategy_Return, report_strategy)
    /\ ZeroVolatilityZeroSharpe(daily_returns, report)

\* zero volatility with a non-zero annualized return
C7_Witness ==
    /\ report.kind = "numeric"
    /\ report.annualized_volatility = Sqrt(Zero)
    /\ report.annualized_return # Exact(Zero)
    /\ IsZeroQuotient(report.sharpe_ratio)

\* C8: after calculate_returns row 0 of both return columns is undefined; at
\* every later row daily_return = close[i]/close[i-1] - 1 and strategy_return
\* is daily_return when Long and exactly 0 when Flat; a constant price series
\* gives 0 in both columns at every later row.
C8_Returns ==
    ReturnsDone =>
        /\ Len(Daily_Return) = Len(Close)
        /\ Len(Strategy_Return) = Len(Close)
        /\ Daily_Return[1] = NaN
        /\ Strategy_Return[1] = NaN
        /\ \A i \in 2..Len(Close) :
              /\ Daily_Return[i] = F(Close[i] - Close[i - 1], Close[i - 1])
              /\ Position[i] = 1 => Strategy_Return[i] = Daily_Return[i]
              /\ Position[i] = 0 => Strategy_Return[i] = Zero
        /\ (\A i \in 2..Len(Close) : Close[i] = Close[1]) =>
              \A i \in 2..Len(Close) :
                  Daily_Return[i] = Zero /\ Strategy_Return[i] = Zero

\* a Long row and a Flat row, both with a price move
C8_Witness ==
    /\ ReturnsDone
    /\ entry \in Pipeline
    /\ \E i \in 2..Len(Close) : Position[i] = 1 /\ Daily_Return[i] # Zero
    /\ \E j \in 2..Len(Close) :
          Position[j] = 0 /\ Daily_Return[j] # Zero /\ Strategy_Return[j] = Zero

\* C9: with 0 < short_window < long_window (long_window may exceed the length
\* of the series) the SMA, signal and position columns are as long as the
\* price series, and position is 0 or 1 at every row, 0 before the first Long
\* signal.
C9_PositionTotal ==
    (SignalsDone /\ ValidWindows /\ Len(Close) >= 1) =>
        /\ Len(SMA_short) = Len(Close)
        /\ Len(SMA_long) = Len(Close)
        /\ Len(Signal) = Len(Close)
        /\ Len(Position) = Len(Close)
        /\ \A i \in 1..Len(Close) :
              /\ Position[i] \in {0, 1}
              /\ (\A j \in 1..i : Signal[j] # 1) => Position[i] = 0

\* Flat rows, then the first Long signal
C9_Witness ==
    /\ SignalsDone
    /\ ValidWindows
    /\ \E i \in 2..Len(Close) :
          /\ Signal[i] = 1
          /\ \A j \in 1..(i - 1) : Signal[j] = 0 /\ Position[j] = 0

\* C10: plot_signals marks a buy at row i exactly when the signal goes Flat
\* to Long from row i-1 to row i and a sell exactly when it goes Long to Flat;
\* row 0 and unchanged rows carry no marker; [0,0,1,1,0] gives one buy at
\* row 2 and one sell at row 4.
C10_CrossoverMarkers ==
    MarkersDone =>
        /\ Len(buy_signals) = Len(Signal)
        /\ Len(sell_signals) = Len(Signal)
        /\ \A i \in 1..Len(Signal) :
              /\ buy_signals[i] <=> (i > 1 /\ Signal[i - 1] = 0 /\ Signal[i] = 1)
              /\ sell_signals[i] <=> (i > 1 /\ Signal[i - 1] = 1 /\ Signal[i] = 0)
        /\ Signal = <<0, 0, 1, 1, 0>> =>
              /\ {i \in 1..5 : buy_signals[i]} = {3}
              /\ {i \in 1..5 : sell_signals[i]} = {5}

\* the signal column [0,0,1,1,0] has been marked
C10_Witness ==
    /\ MarkersDone
    /\ Signal = <<0, 0, 1, 1, 0>>
    /\ buy_signals[3]
    /\ sell_signals[5]

====
